---------------------------- MODULE Spec2Model ----------------------------
(***************************************************************************)
(* MS2Rescore: the rescoring workflow of ms2rescore/core.py (rescore) and  *)
(* the command-line entry point of ms2rescore/__main__.py (main).          *)
(*                                                                         *)
(* Numbers: q-values and PEPs are held in percent (an integer), so the     *)
(* 1% FDR threshold 0.01 of the code is QThreshold = 1.  Python's None     *)
(* in a numeric field is the integer None.  Strings that the code slices   *)
(* or matches (spectrum identifiers) are sequences of one-character        *)
(* strings.                                                                *)
(***************************************************************************)
EXTENDS Integers, Sequences, FiniteSets, TLC

VARIABLES
    config,          \* configuration["ms2rescore"], fixed for the run
    pc,              \* position in rescore()
    psm_list,        \* the PSM collection (sequence of PSM records)
    loaded,          \* history: the collection as read or supplied
    captured,        \* history: the collection when provenance was captured
    error,           \* the exception that left rescore() and the step it left
    outputs,         \* files written, in order of writing
    log,             \* log records, in order
    feature_names,   \* ordered dict: sequence of [gen, names]
    fg_i,            \* index of the feature generator the loop is at
    id_psms_before,  \* identified PSMs at 1% FDR before rescoring
    id_psms_after,   \* the same after rescoring
    calls,           \* calls made to collaborators, in order
    cli              \* outcome of main(), when the process ran the CLI

vars == <<config, pc, psm_list, loaded, captured, error, outputs, log,
          feature_names, fg_i, id_psms_before, id_psms_after, calls,
          cli>>

-----------------------------------------------------------------------------
(* Bounds of the model *)

\* longest PSM collection read or supplied
MaxPSMs == 2

\* configuration options that differ from the default configuration at once
MaxDeviations == 2

-----------------------------------------------------------------------------
(* Values *)

\* Python's None in a numeric field (score, qvalue, pep, rank)
None == -1

\* 0.01 of core.py lines 67 and 179, in percent
QThreshold == 1

\* a q-value with no target at or above the threshold (division by zero)
QInf == 1000

Min(S) == CHOOSE x \in S : \A y \in S : x <= y

Range(s) == {s[i] : i \in 1..Len(s)}

RECURSIVE SelectIdx(_, _, _)
\* the elements of s at the positions where keep holds, in order
SelectIdx(s, keep, i) ==
    IF i > Len(s) THEN <<>>
    ELSE IF keep[i] THEN <<s[i]>> \o SelectIdx(s, keep, i + 1)
         ELSE SelectIdx(s, keep, i + 1)

\* PSMList.__getitem__ with a list of booleans: boolean-mask filtering
MaskFilter(s, keep) == SelectIdx(s, keep, 1)

\* a spectrum identifier: a Python str or int, with its text
StrId(chars) == [t |-> "str", v |-> chars]
IntId(chars) == [t |-> "int", v |-> chars]

\* Python str(x) on a spectrum identifier
Str(x) == [t |-> "str", v |-> x.v]


-----------------------------------------------------------------------------
(* Regular expressions.  A pattern is a literal followed by ".+", the ".+"  *)
(* being a capturing group (groups = 1, "lit(.+)") or not (groups = 0,      *)
(* "lit.+").                                                                *)

\* the positions at which pat matches inside the text s
MatchStarts(pat, s) ==
    {i \in 1..Len(s) :
        /\ i + Len(pat.lit) <= Len(s)
        /\ SubSeq(s, i, i + Len(pat.lit) - 1) = pat.lit}

\* re.search(pat, s): the leftmost match, or no match
Search(pat, s) ==
    IF MatchStarts(pat, s) = {}
    THEN [found |-> FALSE, start |-> 0]
    ELSE [found |-> TRUE, start |-> Min(MatchStarts(pat, s))]

\* match[1] of a match m of pat in s (the greedy ".+" takes the rest of s)
Group1(pat, s, m) == SubSeq(s, m.start + Len(pat.lit), Len(s))

\* whether the literal lit occurs in s: re.search of a literal pattern
Contains(lit, s) ==
    \E i \in 1..(Len(s) + 1 - Len(lit)) : SubSeq(s, i, i + Len(lit) - 1) = lit

\* MatchPsmIds keeping the old identifier where the pattern fails
MatchPsmIdsSkip(old_id, pat) ==
    LET m == Search(pat, Str(old_id).v)
    IN  IF m.found /\ pat.groups >= 1
        THEN [raised |-> FALSE, id |-> StrId(Group1(pat, Str(old_id).v, m))]
        ELSE [raised |-> FALSE, id |-> old_id]

\* _match_psm_ids(old_id, regex_pattern): the first group, or MS2RescoreError
\* when there is no match (TypeError) or no group 1 (IndexError)
MatchPsmIds(old_id, pat) ==
    LET m == Search(pat, Str(old_id).v)
    IN  IF m.found /\ pat.groups >= 1
        THEN [raised |-> FALSE, id |-> StrId(Group1(pat, Str(old_id).v, m))]
        ELSE [raised |-> TRUE, id |-> old_id]

-----------------------------------------------------------------------------
(* Inputs *)

NoPattern == [lit |-> <<>>, groups |-> 0]

\* the values of psm_id_pattern tried: unset, "s(.+)", "s.+"
IdPatterns ==
    {NoPattern, [lit |-> <<"s">>, groups |-> 1], [lit |-> <<"s">>, groups |-> 0]}

\* the values of id_decoy_pattern tried: unset, "D"
DecoyPatterns == {<<>>, <<"D">>}

\* the feature generators of FEATURE_GENERATORS, with their feature_names
KnownGenerators == {"basic", "maxquant"}

GenFeatureNames(g) ==
    IF g = "basic" THEN {"b1", "b2"}
    ELSE IF g = "maxquant" THEN {"m1"}
    ELSE {}

\* the values of feature_generators tried (an ordered mapping: its keys)
GeneratorConfigs ==
    {<<>>, <<"basic">>, <<"maxquant", "basic">>, <<"basic", "maxquant">>,
     <<"nope">>}

\* the values of rescoring_engine tried (a mapping: its keys)
EngineConfigs ==
    {{}, {"percolator"}, {"mokapot"}, {"percolator", "mokapot"}, {"other"},
     {"other", "mokapot"}}

AllConfigs ==
    [id_decoy_pattern : DecoyPatterns,
     lower_score_is_better : BOOLEAN,
     psm_id_pattern : IdPatterns,
     feature_generators : GeneratorConfigs,
     rescoring_engine : EngineConfigs,
     rename_to_usi : BOOLEAN]

\* the configuration the others are varied from
DefaultConfig ==
    [id_decoy_pattern |-> <<"D">>,
     lower_score_is_better |-> FALSE,
     psm_id_pattern |-> NoPattern,
     feature_generators |-> <<"basic">>,
     rescoring_engine |-> {"percolator"},
     rename_to_usi |-> FALSE]

\* the configurations tried: at most MaxDeviations options off the default
Configs ==
    {c \in AllConfigs :
        Cardinality({f \in DOMAIN c : c[f] # DefaultConfig[f]}) <= MaxDeviations}

NoProvenance == [k \in {} |-> None]

PSM(id, prot, dec, sc, q, pe, rk, src, feats) ==
    [uid |-> 0, spectrum_id |-> id, protein |-> prot, is_decoy |-> dec,
     score |-> sc, qvalue |-> q, pep |-> pe, rank |-> rk, source |-> src,
     rescoring_features |-> feats, provenance_data |-> NoProvenance]

\* the PSMs a file or a caller is taken to hold
PSMPool ==
    {PSM(StrId(<<"s", "1">>), <<"p">>, FALSE, 3, 0, 0, 1, "msms", {}),
     PSM(StrId(<<"s", "2">>), <<"D", "p">>, TRUE, 1, 50, 50, 1, "msms", {}),
     PSM(StrId(<<"s", "1">>), <<"D", "p">>, FALSE, 2, None, None, 2, "msms", {}),
     PSM(IntId(<<"7">>), <<"p">>, TRUE, 2, 0, None, 1, "sage", {"f0"})}

\* uid is not a field of the code's PSM: it names the PSM object, by its
\* position in the collection as loaded
WithUids(l) == [i \in 1..Len(l) |-> [l[i] EXCEPT !.uid = i]]

PSMLists == {WithUids(l) : l \in UNION {[1..n -> PSMPool] : n \in 0..MaxPSMs}}

\* what a rescoring engine may write back to the PSMs
EngineResults ==
    {[score |-> 9, qvalue |-> 0, pep |-> 0, rank |-> 1],
     [score |-> 0, qvalue |-> 50, pep |-> 50, rank |-> 2]}

NoError == [exc |-> "", at |-> ""]

NotRun == [ran |-> FALSE, exit |-> 0, logged |-> FALSE, html_saved |-> FALSE,
           exc |-> ""]

Init ==
    /\ config \in Configs
    /\ pc = "start"
    /\ psm_list = <<>>
    /\ loaded = <<>>
    /\ captured = <<>>
    /\ error = NoError
    /\ outputs = <<>>
    /\ log = <<>>
    /\ feature_names = <<>>
    /\ fg_i = 1
    /\ id_psms_before = 0
    /\ id_psms_after = 0
    /\ calls = <<>>
    /\ cli = NotRun

-----------------------------------------------------------------------------
(* The PSM collection's operations (psm_utils) *)

\* PSMList.find_decoys(pattern): is_decoy of every PSM becomes whether the
\* pattern is found in its protein accession
FindDecoys(s, pattern) ==
    [i \in 1..Len(s) |-> [s[i] EXCEPT !.is_decoy = Contains(pattern, s[i].protein)]]

\* whether score a is at least as good as score b
AtLeastAsGood(a, b, reverse) == IF reverse THEN a >= b ELSE a <= b

\* decoys / targets among the PSMs scoring at least as well as threshold t
FdrAt(s, t, reverse) ==
    LET above == {i \in 1..Len(s) : AtLeastAsGood(s[i].score, t, reverse)}
        d == Cardinality({i \in above : s[i].is_decoy})
        tg == Cardinality({i \in above : ~s[i].is_decoy})
    IN  IF tg = 0 THEN QInf ELSE (100 * d) \div tg

\* PSMList.calculate_qvalues(reverse): target-decoy q-values of the whole
\* collection, monotonic from the tail
CalculateQvalues(s, reverse) ==
    [i \in 1..Len(s) |->
        [s[i] EXCEPT !.qvalue =
            Min({FdrAt(s, s[j].score, reverse) :
                 j \in {k \in 1..Len(s) :
                          AtLeastAsGood(s[i].score, s[k].score, reverse)}})]]

\* the number of target PSMs with qvalue <= 0.01 (lines 66-68 and 178-180)
\* None <= 0.01 is false for the nullable q-value
IdentifiedPsms(s) ==
    Cardinality({i \in 1..Len(s) :
        s[i].qvalue # None /\ s[i].qvalue <= QThreshold /\ ~s[i].is_decoy})

-----------------------------------------------------------------------------
(* rescore(), statement by statement *)

\* an exception leaves rescore(): nothing after the raising line runs
Raise(exc) ==
    /\ pc' = "aborted"
    /\ error' = [exc |-> exc, at |-> pc]

File(name, psms, names, rows) ==
    [name |-> name, psms |-> psms, features |-> names, rows |-> rows]

Call(fn, arg) == [fn |-> fn, arg |-> arg]

LogRec(level, msg, n) == [level |-> level, msg |-> msg, n |-> n]

\* lines 30-37: the resolved configuration is written before anything else
WriteFullConfig ==
    /\ pc = "start"
    /\ cli = NotRun
    /\ outputs' = Append(outputs, File("full-config.json", <<>>, {}, <<>>))
    /\ pc' = "read"
    /\ UNCHANGED <<config, psm_list, loaded, error, log,
                   feature_names, fg_i, id_psms_before, id_psms_after, calls,
                   cli, captured>>

\* lines 39-46: a psm_list argument that is absent or empty is falsy, and the
\* collection is then read from config["psm_file"]
ReadPSMs ==
    /\ pc = "read"
    /\ \E from_arg \in BOOLEAN, l \in PSMLists :
        /\ from_arg => Len(l) > 0
        /\ psm_list' = l
        /\ loaded' = l
    /\ pc' = "find_decoys"
    /\ UNCHANGED <<config, error, outputs, log, feature_names, fg_i,
                   id_psms_before, id_psms_after, calls, cli,
                   captured>>

\* lines 49-50: find_decoys runs only for a configured id_decoy_pattern
LabelDecoys(s, pattern) ==
    IF pattern # <<>> THEN FindDecoys(s, pattern) ELSE s

\* lines 51-58: what the decoy check raises, "" when it passes.  Line 52
\* divides by n_psms before line 54 looks for a decoy.
DecoyCheck(s) ==
    IF Len(s) = 0 THEN "ZeroDivisionError"
    ELSE IF ~(\E i \in 1..Len(s) : s[i].is_decoy)
         THEN "MS2RescoreConfigurationError"
         ELSE ""

\* lines 48-58
FindDecoysStep ==
    /\ pc = "find_decoys"
    /\ LET labelled == LabelDecoys(psm_list, config.id_decoy_pattern)
       IN  /\ psm_list' = labelled
           /\ calls' = IF config.id_decoy_pattern # <<>>
                       THEN Append(calls, Call("find_decoys", ""))
                       ELSE calls
           /\ IF DecoyCheck(labelled) # ""
              THEN /\ Raise(DecoyCheck(labelled))
                   /\ log' = log
              ELSE /\ pc' = "qvalues"
                   /\ error' = error
                   /\ log' = Append(log, LogRec("info", "Found PSMs",
                                                Len(labelled)))
    /\ UNCHANGED <<config, loaded, outputs, feature_names, fg_i,
                   id_psms_before, id_psms_after, cli,
                   captured>>

\* QvaluesMissing asking that every q-value is missing
QvaluesAllMissing(s) == \A i \in 1..Len(s) : s[i].qvalue = None

\* line 61: None in psm_list["qvalue"]
QvaluesMissing(s) == \E i \in 1..Len(s) : s[i].qvalue = None

\* line 63: the reverse argument of calculate_qvalues
Reverse(cfg) == ~cfg.lower_score_is_better

\* lines 60-63
QvaluesStep ==
    /\ pc = "qvalues"
    /\ IF QvaluesMissing(psm_list)
       THEN /\ psm_list' = CalculateQvalues(psm_list, Reverse(config))
            /\ calls' = Append(calls, Call("calculate_qvalues",
                                 IF Reverse(config) THEN "reverse=True"
                                 ELSE "reverse=False"))
       ELSE /\ psm_list' = psm_list
            /\ calls' = calls
    /\ pc' = "provenance"
    /\ UNCHANGED <<config, loaded, error, outputs, log,
                   feature_names, fg_i, id_psms_before, id_psms_after, cli,
                   captured>>

ProvenanceKeys ==
    {"before_rescoring_score", "before_rescoring_qvalue",
     "before_rescoring_pep", "before_rescoring_rank"}

\* dict.update: the keys of upd are set, the others kept
DictUpdate(d, upd) ==
    [k \in DOMAIN d \cup DOMAIN upd |-> IF k \in DOMAIN upd THEN upd[k] ELSE d[k]]

\* Snapshot with the q-value and the PEP stored under each other's key
SnapshotSwapped(psm) ==
    [psm EXCEPT !.provenance_data = DictUpdate(psm.provenance_data,
        [k \in ProvenanceKeys |->
            IF k = "before_rescoring_score" THEN psm.score
            ELSE IF k = "before_rescoring_qvalue" THEN psm.pep
            ELSE IF k = "before_rescoring_pep" THEN psm.qvalue
            ELSE psm.rank])]

\* lines 73-80, for one PSM
Snapshot(psm) ==
    [psm EXCEPT !.provenance_data = DictUpdate(psm.provenance_data,
        [k \in ProvenanceKeys |->
            IF k = "before_rescoring_score" THEN psm.score
            ELSE IF k = "before_rescoring_qvalue" THEN psm.qvalue
            ELSE IF k = "before_rescoring_pep" THEN psm.pep
            ELSE psm.rank])]

\* lines 65-80: count the identified PSMs, then snapshot every PSM
ProvenanceStep ==
    /\ pc = "provenance"
    /\ id_psms_before' = IdentifiedPsms(psm_list)
    /\ log' = Append(log, LogRec("info", "identified before",
                                 IdentifiedPsms(psm_list)))
    /\ psm_list' = [i \in 1..Len(psm_list) |-> Snapshot(psm_list[i])]
    /\ captured' = psm_list
    /\ pc' = "normalize"
    /\ UNCHANGED <<config, loaded, error, outputs, feature_names,
                   fg_i, id_psms_after, calls, cli>>

\* lines 82-85: rename_modifications, add_fixed_modifications and
\* apply_fixed_modifications rewrite the peptidoforms only
NormalizeStep ==
    /\ pc = "normalize"
    /\ calls' = Append(calls, Call("apply_fixed_modifications", ""))
    /\ pc' = "psm_ids"
    /\ UNCHANGED <<config, psm_list, loaded, error, outputs, log,
                   feature_names, fg_i, id_psms_before, id_psms_after, cli,
                   captured>>

\* line 90: the list comprehension over psm_list["spectrum_id"]
NewIds(s, pat) == [i \in 1..Len(s) |-> MatchPsmIds(s[i].spectrum_id, pat)]

\* bulk assignment psm_list["spectrum_id"] = ids
AssignIds(s, ids) == [i \in 1..Len(s) |-> [s[i] EXCEPT !.spectrum_id = ids[i]]]

\* IdsOnFailure assigning each identifier as soon as it is computed
IdsAssignedAsComputed(s, new) ==
    [i \in 1..Len(s) |->
        IF \A j \in 1..i : ~new[j].raised
        THEN [s[i] EXCEPT !.spectrum_id = new[i].id]
        ELSE s[i]]

\* lines 89-91: _match_psm_ids raises inside the list comprehension, so the
\* assignment of line 91 never runs and the collection keeps its identifiers
IdsOnFailure(s, new) == s

\* lines 87-95: every new identifier is computed before any is assigned
\* (line 91); line 95 then makes every identifier a str
PsmIdStep ==
    /\ pc = "psm_ids"
    /\ LET new == NewIds(psm_list, config.psm_id_pattern)
           matched == IF config.psm_id_pattern # NoPattern
                      THEN AssignIds(psm_list,
                               [i \in 1..Len(psm_list) |-> new[i].id])
                      ELSE psm_list
       IN  IF /\ config.psm_id_pattern # NoPattern
              /\ \E i \in 1..Len(psm_list) : new[i].raised
           THEN /\ Raise("MS2RescoreError")
                /\ psm_list' = IdsOnFailure(psm_list, new)
           ELSE /\ psm_list' = AssignIds(matched,
                    [i \in 1..Len(matched) |-> Str(matched[i].spectrum_id)])
                /\ pc' = "feature_names"
                /\ error' = error
    /\ UNCHANGED <<config, loaded, outputs, log, feature_names, fg_i,
                   id_psms_before, id_psms_after, calls, cli,
                   captured>>

\* lines 99-103: the feature names found on any PSM
PsmListFeatureNames(s) == UNION {s[i].rescoring_features : i \in 1..Len(s)}

\* FeatureNamesStep going on past the generators and the filter
FeatureNamesStepSkipsGenerators ==
    /\ pc = "feature_names"
    /\ feature_names' = <<[gen |-> "psm_file",
                           names |-> PsmListFeatureNames(psm_list)]>>
    /\ fg_i' = 1
    /\ pc' = "usi"
    /\ UNCHANGED <<config, psm_list, loaded, error, outputs, log,
                   id_psms_before, id_psms_after, calls, cli,
                   captured>>

\* lines 97-108
FeatureNamesStep ==
    /\ pc = "feature_names"
    /\ feature_names' = <<[gen |-> "psm_file",
                           names |-> PsmListFeatureNames(psm_list)]>>
    /\ fg_i' = 1
    /\ pc' = "generators"
    /\ UNCHANGED <<config, psm_list, loaded, error, outputs, log,
                   id_psms_before, id_psms_after, calls, cli,
                   captured>>

\* SkipGenerator asking only that some PSM comes from msms.txt
SkipGeneratorAnyMsms(name, s) ==
    name = "maxquant" /\ ~(\E i \in 1..Len(s) : s[i].source = "msms")

\* line 112: the maxquant generator needs every PSM to come from msms.txt
SkipGenerator(name, s) ==
    name = "maxquant" /\ ~(\A i \in 1..Len(s) : s[i].source = "msms")

\* a feature name no generator declares
StrayName == "zz"

\* the sets of PSMs a generator is taken to score: none, all, the first
\* only, all but the first
Scorings(s) ==
    {{}, 1..Len(s), (1..Len(s)) \cap {1}, (1..Len(s)) \ {1}}

\* the PSMs tried with an undeclared key: none, or the first PSM of a fully
\* scored collection
StrayChoices(s, scored) ==
    IF scored = 1..Len(s) THEN {{}, scored \cap {1}} ELSE {{}}

\* add_features(psm_list): the PSMs in scored get every declared feature,
\* those in stray an undeclared one as well
AddFeatures(s, name, scored, stray) ==
    [i \in 1..Len(s) |->
        IF i \in scored
        THEN [s[i] EXCEPT !.rescoring_features =
                 @ \cup GenFeatureNames(name)
                   \cup (IF i \in stray THEN {StrayName} ELSE {})]
        ELSE s[i]]

\* lines 110-119: one iteration of the loop over feature_generators
GeneratorStep ==
    /\ pc = "generators"
    /\ fg_i <= Len(config.feature_generators)
    /\ LET name == config.feature_generators[fg_i]
       IN  IF SkipGenerator(name, psm_list)
           THEN /\ fg_i' = fg_i + 1
                /\ UNCHANGED <<pc, error, psm_list, calls, feature_names>>
           ELSE IF name \notin KnownGenerators
           THEN /\ Raise("KeyError")
                /\ UNCHANGED <<fg_i, psm_list, calls, feature_names>>
           ELSE /\ calls' = Append(calls, Call("add_features", name))
                /\ \E fails \in BOOLEAN, scored \in Scorings(psm_list) :
                   \E stray \in StrayChoices(psm_list, scored) :
                     IF fails
                     THEN /\ scored = {}
                          /\ Raise("FeatureGeneratorError")
                          /\ UNCHANGED <<fg_i, psm_list, feature_names>>
                     ELSE /\ psm_list' = AddFeatures(psm_list, name, scored,
                                                     stray)
                          /\ feature_names' = Append(feature_names,
                                 [gen |-> name, names |-> GenFeatureNames(name)])
                          /\ fg_i' = fg_i + 1
                          /\ UNCHANGED <<pc, error>>
    /\ UNCHANGED <<config, loaded, outputs, log, id_psms_before,
                   id_psms_after, cli,
                   captured>>

\* line 122: the union of every registered set of feature names
AllFeatureNames(fn) == UNION {fn[i].names : i \in 1..Len(fn)}

\* HasAllFeatures asking only that no feature of the union is missing
HasAllFeaturesSubset(psm, all) == all \subseteq psm.rescoring_features

\* lines 123-125: whether a PSM carries exactly the union
HasAllFeatures(psm, all) == psm.rescoring_features = all

PsmsWithFeatures(s, all) == [i \in 1..Len(s) |-> HasAllFeatures(s[i], all)]

\* line 201: the header of the feature names file
Header == <<"feature_generator", "feature_name">>

RECURSIVE FeatureRows(_, _)
\* lines 203-204: one row per feature of a generator, in the set's order
FeatureRows(fgen, fgen_features) ==
    IF fgen_features = {} THEN <<>>
    ELSE LET feature == CHOOSE f \in fgen_features : TRUE
         IN  <<<<fgen, feature>>>> \o
                 FeatureRows(fgen, fgen_features \ {feature})

RECURSIVE GeneratorRows(_, _)
\* line 202: the generators in the order of their registration
GeneratorRows(fn, i) ==
    IF i > Len(fn) THEN <<>>
    ELSE FeatureRows(fn[i].gen, fn[i].names) \o GeneratorRows(fn, i + 1)

\* lines 198-204: _write_feature_names
WriteFeatureNames(fn) == <<Header>> \o GeneratorRows(fn, 1)

\* psms_with_features.count(False)
CountFalse(mask) == Cardinality({i \in 1..Len(mask) : ~mask[i]})

\* lines 121-141: filter, warn, and write the feature names
FilterStep ==
    /\ pc = "generators"
    /\ fg_i > Len(config.feature_generators)
    /\ LET all == AllFeatureNames(feature_names)
           mask == PsmsWithFeatures(psm_list, all)
       IN  /\ log' = IF CountFalse(mask) > 0
                     THEN Append(log, LogRec("warning", "Removed PSMs",
                                             CountFalse(mask)))
                     ELSE log
           /\ psm_list' = MaskFilter(psm_list, mask)
           /\ outputs' = Append(outputs,
                  File("feature_names.tsv", <<>>, all,
                       WriteFeatureNames(feature_names)))
    /\ pc' = "usi"
    /\ UNCHANGED <<config, loaded, error, feature_names, fg_i,
                   id_psms_before, id_psms_after, calls, cli, captured>>

\* psm.get_usi(as_url=False): an identifier derived from the spectrum
Usi(psm) == StrId(<<"m", ":">> \o psm.spectrum_id.v)

\* UsiStep with the PIN export placed before the engine dispatch
UsiStepExportsPin ==
    /\ pc = "usi"
    /\ psm_list' = IF config.rename_to_usi
                   THEN AssignIds(psm_list,
                            [i \in 1..Len(psm_list) |-> Usi(psm_list[i])])
                   ELSE psm_list
    /\ outputs' = Append(outputs,
           File("pin", psm_list', AllFeatureNames(feature_names), <<>>))
    /\ pc' = "dispatch"
    /\ UNCHANGED <<config, loaded, error, log, feature_names, fg_i,
                   id_psms_before, id_psms_after, calls, cli,
                   captured>>

\* lines 143-145
UsiStep ==
    /\ pc = "usi"
    /\ psm_list' = IF config.rename_to_usi
                   THEN AssignIds(psm_list,
                            [i \in 1..Len(psm_list) |-> Usi(psm_list[i])])
                   ELSE psm_list
    /\ pc' = "dispatch"
    /\ UNCHANGED <<config, loaded, error, outputs, log, feature_names, fg_i,
                   id_psms_before, id_psms_after, calls, cli,
                   captured>>

\* ExportPinStep without the return of line 156
ExportPinStepNoReturn ==
    /\ pc = "dispatch"
    /\ config.rescoring_engine = {}
    /\ outputs' = Append(outputs,
           File("pin", psm_list, AllFeatureNames(feature_names), <<>>))
    /\ pc' = "compare"
    /\ UNCHANGED <<config, psm_list, loaded, error, log, feature_names, fg_i,
                   id_psms_before, id_psms_after, calls, cli,
                   captured>>

\* lines 147-156: without a rescoring engine the PIN file is written and
\* rescore() returns
ExportPinStep ==
    /\ pc = "dispatch"
    /\ config.rescoring_engine = {}
    /\ outputs' = Append(outputs,
           File("pin", psm_list, AllFeatureNames(feature_names), <<>>))
    /\ pc' = "done"
    /\ UNCHANGED <<config, psm_list, loaded, error, log, feature_names, fg_i,
                   id_psms_before, id_psms_after, calls, cli,
                   captured>>

\* ChosenEngine with mokapot tested first
ChosenEngineMokapotFirst(engines) ==
    IF "mokapot" \in engines THEN "mokapot"
    ELSE IF "percolator" \in engines THEN "percolator"
    ELSE ""

\* lines 159-175: the engine adapter called, "" for the else branch
ChosenEngine(engines) ==
    IF "percolator" \in engines THEN "percolator"
    ELSE IF "mokapot" \in engines THEN "mokapot"
    ELSE ""

\* the adapter writes score, qvalue, pep and rank of every PSM
Rescored(s, res) ==
    [i \in 1..Len(s) |->
        [s[i] EXCEPT !.score = res.score, !.qvalue = res.qvalue,
                     !.pep = res.pep, !.rank = res.rank]]

\* lines 158-175
RescoreStep ==
    /\ pc = "dispatch"
    /\ config.rescoring_engine # {}
    /\ LET engine == ChosenEngine(config.rescoring_engine)
       IN  IF engine = ""
           THEN /\ log' = Append(log, LogRec("info",
                              "No known rescoring engine specified", 0))
                /\ pc' = "compare"
                /\ UNCHANGED <<psm_list, calls, error>>
           ELSE /\ calls' = Append(calls, Call("rescore", engine))
                /\ log' = log
                /\ \E fails \in BOOLEAN, res \in EngineResults :
                     IF fails
                     THEN /\ res = CHOOSE r \in EngineResults : TRUE
                          /\ Raise("EngineError")
                          /\ psm_list' = psm_list
                     ELSE /\ psm_list' = Rescored(psm_list, res)
                          /\ pc' = "compare"
                          /\ error' = error
    /\ UNCHANGED <<config, loaded, outputs, feature_names, fg_i,
                   id_psms_before, id_psms_after, cli,
                   captured>>

\* Diff with its operands exchanged
DiffSwapped(after, before) == before - after

\* line 181
Diff(after, before) == after - before

\* lines 182-186: the percentage is part of the message only when there
\* were identified PSMs before, so line 183 never divides by zero
DiffPerc(diff, before) ==
    IF before > 0
    THEN [shown |-> TRUE, perc |-> (100 * diff) \div before]
    ELSE [shown |-> FALSE, perc |-> 0]

\* lines 177-186: the difference is logged, nothing depends on it; the two
\* messages differ in the percentage only
CompareStep ==
    /\ pc = "compare"
    /\ id_psms_after' = IdentifiedPsms(psm_list)
    /\ LET diff == Diff(IdentifiedPsms(psm_list), id_psms_before)
           perc == DiffPerc(diff, id_psms_before)
       IN  log' = Append(log, LogRec("info",
                      IF perc.shown THEN "Identified more PSMs (percent)"
                                    ELSE "Identified more PSMs", diff))
    /\ pc' = "write"
    /\ UNCHANGED <<config, psm_list, loaded, error, outputs, feature_names,
                   fg_i, id_psms_before, calls, cli,
                   captured>>

\* lines 188-195
WriteOutputStep ==
    /\ pc = "write"
    /\ outputs' = Append(outputs, File("psms.tsv", psm_list, {}, <<>>))
    /\ pc' = "done"
    /\ UNCHANGED <<config, psm_list, loaded, error, log, feature_names, fg_i,
                   id_psms_before, id_psms_after, calls, cli,
                   captured>>

-----------------------------------------------------------------------------
(* main() of __main__.py, as one step of the process *)

\* the keys of LOG_MAPPING (lines 24-30)
LogLevels == {"critical", "error", "warning", "info", "debug"}

\* the values of log_level tried
LogLevelInputs == {"info", "debug", "verbose"}

\* lines 157-160: Path(output_path) / Path(psm_file).with_suffix("").as_uri();
\* as_uri() raises ValueError on a relative path, and "/" yields a Path
OutputFileRoot(psm_file_absolute) ==
    IF psm_file_absolute THEN [raised |-> "", type |-> "Path"]
    ELSE [raised |-> "ValueError", type |-> ""]

\* Python's a + b by the types of a and b: a Path has no __add__, and str
\* concatenates with str only
PyAdd(a, b) ==
    IF a = "str" /\ b = "str" THEN [raised |-> "", type |-> "str"]
    ELSE [raised |-> "TypeError", type |-> ""]

\* _setup_logging (lines 51-66): what it raises, "" when logging is set up
SetupLogging(passed_level) ==
    IF passed_level \notin LogLevels THEN "MS2RescoreConfigurationError" ELSE ""

\* an exception that leaves main(): the interpreter prints the traceback and
\* exits with status 1; neither LOGGER.exception nor save_html has run
Uncaught(exc) ==
    [ran |-> TRUE, exit |-> 1, logged |-> FALSE, html_saved |-> FALSE,
     exc |-> exc]

\* lines 163-170: the try statement around MS2Rescore(...).run()
TryRun(root, run_raises) ==
    LET html == PyAdd(root.type, "str")
    IN  IF html.raised # "" THEN Uncaught(html.raised)
        ELSE [ran |-> TRUE, exit |-> IF run_raises THEN 1 ELSE 0,
              logged |-> run_raises, html_saved |-> TRUE,
              exc |-> IF run_raises THEN "SystemExit" ELSE ""]

\* lines 147-170
Main(log_level, psm_file_absolute, run_raises) ==
    LET root == OutputFileRoot(psm_file_absolute)
    IN  IF root.raised # "" THEN Uncaught(root.raised)
        ELSE IF PyAdd(root.type, "str").raised # ""
        THEN Uncaught(PyAdd(root.type, "str").raised)
        ELSE IF SetupLogging(log_level) # ""
        THEN Uncaught(SetupLogging(log_level))
        ELSE TryRun(root, run_raises)

\* the process runs the command-line interface
CliMain ==
    /\ pc = "start"
    /\ cli = NotRun
    /\ \E log_level \in LogLevelInputs, psm_file_absolute \in BOOLEAN,
          run_raises \in BOOLEAN :
        cli' = Main(log_level, psm_file_absolute, run_raises)
    /\ pc' = "cli_exit"
    /\ UNCHANGED <<config, psm_list, loaded, captured, error,
                   outputs, log, feature_names, fg_i, id_psms_before,
                   id_psms_after, calls>>

Next ==
    \/ WriteFullConfig
    \/ ReadPSMs
    \/ FindDecoysStep
    \/ QvaluesStep
    \/ ProvenanceStep
    \/ NormalizeStep
    \/ PsmIdStep
    \/ FeatureNamesStep
    \/ GeneratorStep
    \/ FilterStep
    \/ UsiStep
    \/ ExportPinStep
    \/ RescoreStep
    \/ CompareStep
    \/ WriteOutputStep
    \/ CliMain

Spec == Init /\ [][Next]_vars

-----------------------------------------------------------------------------
(* Properties *)

IsAddFeatures(c) == c.fn = "add_features"
IsRescore(c) == c.fn = "rescore"
IsCalculateQvalues(c) == c.fn = "calculate_qvalues"

AddFeaturesCalls == SelectSeq(calls, IsAddFeatures)
RescoreCalls == SelectSeq(calls, IsRescore)
QvalueCalls == SelectSeq(calls, IsCalculateQvalues)

\* the names of the files written so far
Written == {outputs[i].name : i \in 1..Len(outputs)}

\* the final PSM outputs: the PIN export and the PSM table
FinalOutputs == {"pin", "psms.tsv"}

\* the decoy step has acted, and this is the state it left
AfterDecoyStep == pc = "qvalues" \/ error.at = "find_decoys"

NoDecoy(s) == \A i \in 1..Len(s) : ~s[i].is_decoy

\* C1: whatever the collection (empty included), if no PSM is a decoy after
\* the decoy-labelling step, rescore() aborts with
\* MS2RescoreConfigurationError, before q-values are computed, provenance is
\* captured, a feature generator or an engine runs, or a PSM output is written.
C1_NoDecoyIsConfigurationError ==
    (AfterDecoyStep /\ NoDecoy(psm_list)) =>
        /\ pc = "aborted"
        /\ error.exc = "MS2RescoreConfigurationError"
        /\ QvalueCalls = <<>> /\ AddFeaturesCalls = <<>> /\ RescoreCalls = <<>>
        /\ captured = <<>>
        /\ Written \cap FinalOutputs = {}

\* the value a PSM had in field f when provenance was captured
AtCapture(psm, f) == captured[psm.uid][f]

ProvenanceIntact(psm) ==
    /\ DOMAIN psm.provenance_data = ProvenanceKeys
    /\ psm.provenance_data["before_rescoring_score"] = AtCapture(psm, "score")
    /\ psm.provenance_data["before_rescoring_qvalue"] = AtCapture(psm, "qvalue")
    /\ psm.provenance_data["before_rescoring_pep"] = AtCapture(psm, "pep")
    /\ psm.provenance_data["before_rescoring_rank"] = AtCapture(psm, "rank")

C2_Invariant ==
    /\ captured = <<>> =>
          \A i \in 1..Len(psm_list) : psm_list[i].provenance_data = NoProvenance
    /\ pc = "normalize" => AddFeaturesCalls = <<>> /\ RescoreCalls = <<>>
    /\ captured # <<>> =>
          \A i \in 1..Len(psm_list) : ProvenanceIntact(psm_list[i])

\* C2: the four before_rescoring_* values of every PSM are written once,
\* before any feature generator or rescoring engine is invoked, and in every
\* later state equal the score, qvalue, pep and rank the PSM had at capture,
\* also after the engine has overwritten them.
C2_ProvenanceNeverChanges ==
    /\ []C2_Invariant
    /\ [][captured # <<>> => captured' = captured]_vars

\* the engine has overwritten all four fields of a PSM that is still there
C2_Witness ==
    /\ pc = "done"
    /\ RescoreCalls # <<>>
    /\ \E i \in 1..Len(psm_list) :
        /\ psm_list[i].score # AtCapture(psm_list[i], "score")
        /\ psm_list[i].qvalue # AtCapture(psm_list[i], "qvalue")
        /\ psm_list[i].pep # AtCapture(psm_list[i], "pep")
        /\ psm_list[i].rank # AtCapture(psm_list[i], "rank")

\* the union the filter is to compare with: the features of the input file
\* and the feature_names of every generator that ran
ExpectedUnion ==
    PsmListFeatureNames(loaded)
        \cup UNION {GenFeatureNames(AddFeaturesCalls[i].arg) :
                    i \in 1..Len(AddFeaturesCalls)}

FilterRuns == pc = "generators" /\ pc' = "usi"

\* C3: the filter keeps exactly the PSMs whose feature key set equals the
\* union (input-file features and the feature_names of every generator that
\* ran), in their original order; PSMs with a missing or an extra key are
\* removed, and the warning reports the number of PSMs removed.
C3_FilterKeepsExactlyTheUnion ==
    [][FilterRuns =>
        LET kept == {i \in 1..Len(psm_list) :
                        psm_list[i].rescoring_features = ExpectedUnion}
            removed == Len(psm_list) - Len(psm_list')
        IN  /\ Range(psm_list') = {psm_list[i] : i \in kept}
            /\ Len(psm_list') = Cardinality(kept)
            /\ \A i, j \in 1..Len(psm_list') :
                  i < j => psm_list'[i].uid < psm_list'[j].uid
            /\ log' = IF removed > 0
                      THEN Append(log, LogRec("warning", "Removed PSMs", removed))
                      ELSE log
      ]_vars

\* the filter has removed some PSMs and kept others, after a generator ran
C3_Witness ==
    /\ pc = "usi"
    /\ AddFeaturesCalls # <<>>
    /\ Len(psm_list) >= 1
    /\ log # <<>>
    /\ log[Len(log)] =
          LogRec("warning", "Removed PSMs", Len(captured) - Len(psm_list))
    /\ \A i \in 1..Len(psm_list) :
          StrayName \notin psm_list[i].rescoring_features

\* the step after the filter has acted: PIN export or engine dispatch
AfterDispatch ==
    pc \in {"compare", "write", "done"} \/ error.at = "dispatch"

\* C4: removing PSMs is a warning while one PSM survives; when the filter
\* removes all PSMs the run aborts, and neither a rescoring engine nor the
\* PIN export is run on the empty collection.
C4_EmptyCollectionIsFatal ==
    AfterDispatch => Len(psm_list) > 0

PatternFails(id) ==
    \/ ~Search(config.psm_id_pattern, Str(id).v).found
    \/ config.psm_id_pattern.groups = 0

SomeIdFails == \E i \in 1..Len(loaded) : PatternFails(loaded[i].spectrum_id)

FirstGroup(id) ==
    StrId(Group1(config.psm_id_pattern, Str(id).v,
                 Search(config.psm_id_pattern, Str(id).v)))

\* C5: with psm_id_pattern configured, one PSM whose identifier the pattern
\* does not match, or a pattern without a first group, aborts the whole run
\* with the pattern-mismatch error before any add_features call; when the
\* pattern matches every PSM, every identifier becomes its first group.
C5_PatternMismatchAbortsRun ==
    config.psm_id_pattern # NoPattern =>
        /\ SomeIdFails =>
              /\ pc \notin {"feature_names", "generators", "usi", "dispatch",
                            "compare", "write", "done"}
              /\ error.at \in {"", "find_decoys", "psm_ids"}
        /\ error.at = "psm_ids" =>
              /\ SomeIdFails
              /\ error.exc = "MS2RescoreError"
              /\ AddFeaturesCalls = <<>>
        /\ pc \in {"feature_names", "generators"} =>
              \A i \in 1..Len(psm_list) :
                  psm_list[i].spectrum_id =
                      FirstGroup(loaded[psm_list[i].uid].spectrum_id)

\* the pattern matches one PSM and not another, and the run has aborted
C5_Witness ==
    /\ config.psm_id_pattern # NoPattern
    /\ config.feature_generators # <<>>
    /\ error.at = "psm_ids"
    /\ \E i \in 1..Len(loaded) : ~PatternFails(loaded[i].spectrum_id)
    /\ \E i \in 1..Len(loaded) : PatternFails(loaded[i].spectrum_id)

\* the two messages of the comparison (lines 184 and 186)
ComparisonMsgs == {"Identified more PSMs (percent)", "Identified more PSMs"}

\* C6: without a rescoring engine the run ends after writing the PSMs to the
\* PIN file with the full feature-name union; no engine adapter is invoked,
\* no comparison is made and no psms.tsv is written.
C6_NoEngineExportsPin ==
    config.rescoring_engine = {} =>
        /\ pc \notin {"compare", "write"}
        /\ error.at # "dispatch"
        /\ RescoreCalls = <<>>
        /\ "psms.tsv" \notin Written
        /\ \A i \in 1..Len(log) : log[i].msg \notin ComparisonMsgs
        /\ "pin" \in Written <=> pc = "done"
        /\ pc = "dispatch" => ENABLED ExportPinStep
        /\ pc = "done" =>
              outputs[Len(outputs)] = File("pin", psm_list, ExpectedUnion, <<>>)

\* PSMs with generated features have been exported to the PIN file
C6_Witness ==
    /\ config.rescoring_engine = {}
    /\ pc = "done"
    /\ AddFeaturesCalls # <<>>
    /\ outputs[Len(outputs)].name = "pin"
    /\ outputs[Len(outputs)].psms # <<>>
    /\ outputs[Len(outputs)].features # {}

\* the engine the precedence of the claim picks
ByPrecedence ==
    IF "percolator" \in config.rescoring_engine THEN "percolator" ELSE "mokapot"

Labelled == LabelDecoys(loaded, config.id_decoy_pattern)

ReverseArg == IF config.lower_score_is_better THEN "reverse=False" ELSE "reverse=True"

\* C8: q-values are recomputed, for the whole collection and with
\* reverse = not lower_score_is_better, only if a PSM has a null q-value
\* after decoy labelling; otherwise calculate_qvalues is not invoked and the
\* q-value captured for every PSM is the one it was loaded with.
C8_QvaluesOnlyWhenMissing ==
    /\ pc \in {"start", "read", "find_decoys", "qvalues"} => QvalueCalls = <<>>
    /\ captured # <<>> =>
          IF \E i \in 1..Len(Labelled) : Labelled[i].qvalue = None
          THEN /\ QvalueCalls = <<Call("calculate_qvalues", ReverseArg)>>
               /\ \A i \in 1..Len(psm_list) :
                     psm_list[i].provenance_data["before_rescoring_qvalue"] =
                         CalculateQvalues(Labelled,
                             ~config.lower_score_is_better)[psm_list[i].uid].qvalue
          ELSE /\ QvalueCalls = <<>>
               /\ \A i \in 1..Len(psm_list) :
                     psm_list[i].provenance_data["before_rescoring_qvalue"] =
                         loaded[psm_list[i].uid].qvalue

\* a PSM loaded with a q-value got another one, because another PSM had none
C8_Witness ==
    /\ pc = "normalize"
    /\ QvalueCalls # <<>>
    /\ \E i \in 1..Len(psm_list) :
        /\ loaded[i].qvalue # None
        /\ psm_list[i].provenance_data["before_rescoring_qvalue"] #
               loaded[i].qvalue

\* C9: a run that aborts, at whatever stage, has written neither the PIN
\* export nor psms.tsv; the final PSM write is the last action of a run and
\* happens only after every earlier stage completed without raising.
C9_NoFinalOutputOnAbort ==
    /\ (pc = "aborted" \/ error # NoError) => Written \cap FinalOutputs = {}
    /\ \A i \in 1..Len(outputs) :
          outputs[i].name \in FinalOutputs =>
              /\ i = Len(outputs)
              /\ pc = "done"
              /\ error = NoError
    /\ pc = "done" => Written \cap FinalOutputs # {}

\* the engine failed, after the feature names were written
C9_Witness ==
    /\ pc = "aborted"
    /\ error.at = "dispatch"
    /\ "feature_names.tsv" \in Written

\* C10: for every fatal condition, an invalid log level included, main() logs
\* the exception, exits with a non-zero status and still saves the log; on a
\* successful run the log is saved and the exit status is zero.
C10_MainLogsAndSavesLog ==
    cli.ran =>
        /\ cli.html_saved
        /\ cli.exc # "" => cli.logged /\ cli.exit # 0
        /\ cli.exc = "" => cli.exit = 0


\* a configured feature generator that FEATURE_GENERATORS does not hold
UnknownGenerator ==
    \E i \in 1..Len(config.feature_generators) :
        config.feature_generators[i] \notin KnownGenerators

\* the generator loop has come to the first unknown name, or has been left
UnknownGeneratorReached ==
    /\ UnknownGenerator
    /\ \/ pc \in {"usi", "dispatch", "compare", "write", "done"}
       \/ pc = "aborted" /\ error.at = "generators"
       \/ pc = "generators" /\ fg_i > Len(config.feature_generators)

\* a non-empty rescoring_engine mapping that names no known engine
UnknownEngine ==
    /\ config.rescoring_engine # {}
    /\ config.rescoring_engine \cap {"percolator", "mokapot"} = {}

\* C11: an unknown name in feature_generators aborts the run with a
\* configuration error once the generator loop comes to it, a non-empty
\* rescoring_engine mapping with neither percolator nor mokapot aborts the
\* run with a configuration error at the dispatch, and neither configuration
\* ever has a final PSM table written.
C11_UnknownKeyIsConfigurationError ==
    /\ UnknownGeneratorReached =>
          /\ pc = "aborted"
          /\ error.exc \in {"MS2RescoreConfigurationError",
                            "FeatureGeneratorError"}
          /\ error.exc = "FeatureGeneratorError" =>
                \E c \in Range(AddFeaturesCalls) : c.arg \in KnownGenerators
    /\ (UnknownEngine /\ AfterDispatch) =>
          /\ pc = "aborted"
          /\ error.exc = "MS2RescoreConfigurationError"
    /\ (UnknownGenerator \/ UnknownEngine) => "psms.tsv" \notin Written


\* the feature names file, once written
FeatureNamesFile ==
    outputs[CHOOSE k \in 1..Len(outputs) :
                outputs[k].name = "feature_names.tsv"]

\* the generators whose add_features has been invoked, in the order of the
\* invocations
Invoked == [i \in 1..Len(AddFeaturesCalls) |-> AddFeaturesCalls[i].arg]

\* maxquant is configured for a collection that is not all from msms.txt
Inapplicable(g) ==
    g = "maxquant" /\ \E i \in 1..Len(loaded) : loaded[i].source # "msms"

Applicable(g) == ~Inapplicable(g)

\* the registry the claim describes: psm_file with the features the loaded
\* PSMs carry, then the invoked generators with the names they declare
ExpectedRegistry ==
    <<[gen |-> "psm_file", names |-> PsmListFeatureNames(loaded)]>> \o
    [i \in 1..Len(Invoked) |->
        [gen |-> Invoked[i], names |-> GenFeatureNames(Invoked[i])]]

\* every (generator, feature name) pair of that registry
ExpectedPairs ==
    UNION {{<<ExpectedRegistry[i].gen, n>> : n \in ExpectedRegistry[i].names} :
              i \in 1..Len(ExpectedRegistry)}

\* the position of a generator in the registry
RegistryPos(g) ==
    CHOOSE i \in 1..Len(ExpectedRegistry) : ExpectedRegistry[i].gen = g

\* C12: an inapplicable maxquant generator is never invoked; once the
\* feature names file is written, the invoked generators are the configured
\* ones that are applicable, in configured order, the registry holds
\* psm_file with the features found on the loaded PSMs followed by one key
\* per invoked generator with its declared names, and the file is the header
\* row followed by exactly one row per (generator, feature name) pair, the
\* generators in registry order.
C12_FeatureNameRegistry ==
    /\ \A i \in 1..Len(Invoked) : ~Inapplicable(Invoked[i])
    /\ "feature_names.tsv" \in Written =>
          LET rows == FeatureNamesFile.rows
          IN  /\ Invoked = SelectSeq(config.feature_generators, Applicable)
              /\ feature_names = ExpectedRegistry
              /\ rows[1] = Header
              /\ {rows[k] : k \in 2..Len(rows)} = ExpectedPairs
              /\ \A j, k \in 2..Len(rows) :
                    j < k => /\ rows[j] # rows[k]
                             /\ RegistryPos(rows[j][1]) <=
                                    RegistryPos(rows[k][1])

\* maxquant, configured first, was skipped for a collection with a PSM that
\* is not from msms.txt; basic ran, and the file holds its two rows
C12_Witness ==
    /\ "feature_names.tsv" \in Written
    /\ config.feature_generators = <<"maxquant", "basic">>
    /\ Invoked = <<"basic">>
    /\ PsmListFeatureNames(loaded) = {"f0"}
    /\ Len(FeatureNamesFile.rows) = 4


\* the records the comparison has logged
ComparisonLog == SelectSeq(log, LAMBDA r : r.msg \in ComparisonMsgs)

\* the comparison has been made
Compared == pc \in {"write", "done"} /\ config.rescoring_engine # {}

\* C13: the comparison and the final write are never refused and never
\* raise, whatever the counts before and after; after the comparison the
\* count before is that of the PSMs as provenance was captured, the count
\* after is that of the PSMs now, one record has been logged and its delta
\* is the count after minus the count before; a run that ends after the
\* comparison has written the PSMs to psms.tsv.
C13_ComparisonNeverGates ==
    /\ pc = "compare" => ENABLED CompareStep
    /\ pc = "write" => ENABLED WriteOutputStep
    /\ error.at \notin {"compare", "write"}
    /\ ~Compared => ComparisonLog = <<>>
    /\ Compared =>
          /\ id_psms_before = IdentifiedPsms(captured)
          /\ id_psms_after = IdentifiedPsms(psm_list)
          /\ Len(ComparisonLog) = 1
          /\ ComparisonLog[1].n = id_psms_after - id_psms_before
          /\ ComparisonLog[1].msg = "Identified more PSMs" <=>
                id_psms_before = 0
    /\ (Compared /\ pc = "done") =>
          outputs[Len(outputs)] = File("psms.tsv", psm_list, {}, <<>>)

\* fewer PSMs are identified after rescoring than before, none at all, and
\* the PSMs have been written
C13_Witness ==
    /\ pc = "done"
    /\ "psms.tsv" \in Written
    /\ id_psms_before > 0
    /\ id_psms_after = 0
    /\ ComparisonLog[1].n < 0


\* the stages of the specification, in their order
Stages ==
    <<"LOADED", "DECOY_LABELLED", "QVALUE_READY", "PROVENANCE_CAPTURED",
      "NORMALIZED", "FEATURES_ANNOTATED", "FEATURE_FILTERED", "ID_REWRITTEN",
      "RESCORED_OR_EXPORTED", "REPORTED">>

StageNo(name) == CHOOSE k \in 1..Len(Stages) : Stages[k] = name

\* the number of the last stage completed when rescore() stands at p with
\* the generator loop at i; no stage is complete before the PSMs are read
StageAt(p, i) ==
    CASE p = "find_decoys" -> StageNo("LOADED")
      [] p = "qvalues" -> StageNo("DECOY_LABELLED")
      [] p = "provenance" -> StageNo("QVALUE_READY")
      [] p \in {"normalize", "psm_ids"} -> StageNo("PROVENANCE_CAPTURED")
      [] p = "feature_names" -> StageNo("NORMALIZED")
      [] p = "generators" ->
            IF i > Len(config.feature_generators)
            THEN StageNo("FEATURES_ANNOTATED") ELSE StageNo("NORMALIZED")
      [] p = "usi" -> StageNo("FEATURE_FILTERED")
      [] p = "dispatch" ->
            IF config.rename_to_usi
            THEN StageNo("ID_REWRITTEN") ELSE StageNo("FEATURE_FILTERED")
      [] p \in {"compare", "write"} -> StageNo("RESCORED_OR_EXPORTED")
      [] p = "done" ->
            IF "psms.tsv" \in Written
            THEN StageNo("REPORTED") ELSE StageNo("RESCORED_OR_EXPORTED")
      [] OTHER -> 0

\* an aborted run stands where the error was raised
Stage == StageAt(IF pc = "aborted" THEN error.at ELSE pc, fg_i)


Logged(msgs) == \E i \in 1..Len(log) : log[i].msg \in msgs

CalledFn(fn) == \E i \in 1..Len(calls) : calls[i].fn = fn

\* no call but add_features is made twice, no generator is invoked twice and
\* no file is written twice
NothingTwice ==
    /\ \A i, j \in 1..Len(calls) :
          (i # j /\ calls[i].fn = calls[j].fn) =>
              /\ calls[i].fn = "add_features"
              /\ calls[i].arg # calls[j].arg
    /\ \A i, j \in 1..Len(outputs) :
          i # j => outputs[i].name # outputs[j].name

\* what a stage does is found exactly when the stage is complete
StageEffects ==
    /\ CalledFn("find_decoys") => Stage >= StageNo("LOADED")
    /\ Logged({"Found PSMs"}) <=> Stage >= StageNo("DECOY_LABELLED")
    /\ CalledFn("calculate_qvalues") => Stage >= StageNo("DECOY_LABELLED")
    /\ Logged({"identified before"}) <=>
          Stage >= StageNo("PROVENANCE_CAPTURED")
    /\ CalledFn("apply_fixed_modifications") =>
          Stage >= StageNo("PROVENANCE_CAPTURED")
    /\ Stage >= StageNo("NORMALIZED") => CalledFn("apply_fixed_modifications")
    /\ CalledFn("add_features") => Stage >= StageNo("NORMALIZED")
    /\ "feature_names.tsv" \in Written <=>
          Stage >= StageNo("FEATURE_FILTERED")
    /\ CalledFn("rescore") =>
          /\ Stage >= StageNo("FEATURE_FILTERED")
          /\ config.rename_to_usi => Stage >= StageNo("ID_REWRITTEN")
    /\ ("pin" \in Written \/ Logged(ComparisonMsgs)) =>
          Stage >= StageNo("RESCORED_OR_EXPORTED")
    /\ "psms.tsv" \in Written <=> Stage = StageNo("REPORTED")

\* a run has ended where the claim says
TerminalStage ==
    /\ ~ENABLED Next => pc \in {"done", "aborted", "cli_exit"}
    /\ pc = "done" =>
          Stage = IF config.rescoring_engine = {}
                  THEN StageNo("RESCORED_OR_EXPORTED")
                  ELSE StageNo("REPORTED")

\* one step of rescore() completes no stage, or the next one, or passes
\* over ID_REWRITTEN when rename_to_usi is off; a generator is invoked
\* during the annotation only, the one the loop stands at, and the loop
\* moves on by one
StageStep ==
    /\ Stage' # Stage =>
          \/ Stage' = Stage + 1
          \/ /\ Stage = StageNo("FEATURE_FILTERED")
             /\ Stage' = StageNo("RESCORED_OR_EXPORTED")
             /\ ~config.rename_to_usi
    /\ AddFeaturesCalls' # AddFeaturesCalls =>
          /\ Stage = StageNo("NORMALIZED")
          /\ pc = "generators"
          /\ AddFeaturesCalls' = Append(AddFeaturesCalls,
                 Call("add_features", config.feature_generators[fg_i]))
    /\ (pc = "generators" /\ fg_i' # fg_i) => fg_i' = fg_i + 1

C15_IdRewriteAllOrNothing ==
    error.at = "psm_ids" =>
        /\ Len(psm_list) = Len(loaded)
        /\ \A i \in 1..Len(psm_list) :
              /\ psm_list[i].uid = i
              /\ psm_list[i].spectrum_id = loaded[i].spectrum_id

\* the pattern would have rewritten the first PSM's identifier and has
\* failed on the second
C15_Witness ==
    /\ error.at = "psm_ids"
    /\ Len(loaded) = 2
    /\ ~PatternFails(loaded[1].spectrum_id)
    /\ FirstGroup(loaded[1].spectrum_id) # loaded[1].spectrum_id
    /\ PatternFails(loaded[2].spectrum_id)

=============================================================================
